---------------------------- MODULE Spec2Model ----------------------------
(***************************************************************************)
(* phantom-core: OHLCV bar specifications, bar validation and aggregation, *)
(* gap filling (fill_ohlcv), reindexing and cleaning (clean_ohlcv).        *)
(*                                                                         *)
(* Every operation of the library is a synchronous call.  A behaviour of   *)
(* the model is one call: Init draws the call (operation and arguments),   *)
(* the operation's action runs it and records what it returns or raises.   *)
(*                                                                         *)
(* Durations and timestamps are whole seconds.  Python floats are modelled *)
(* as integers, and avg_size (a quotient) as an exact fraction <<n, d>>.   *)
(* An optional value (None / NaN cell) is the empty tuple <<>>, a present  *)
(* value v is <<v>>.                                                       *)
(***************************************************************************)
EXTENDS Integers, Sequences, FiniteSets, TLC

VARIABLES pc, call, ret

vars == <<pc, call, ret>>

---------------------------------------------------------------------------
(* Bounds of the model.                                                    *)

\* longest list of sub-bars handed to create_from_aggs
MaxAggs == 6
\* most rows of a table handed to fill_ohlcv
MaxRows == 3
\* the tables handed to reindex and clean hold rows at T0 + k * freq,
\* k in 0..MaxSteps
MaxSteps == 4

---------------------------------------------------------------------------
(* Program constants.                                                      *)

\* DataTimeframe.MIN_1, in seconds
MIN_1 == 60
\* DataTimeframe.MIN_5, in seconds
MIN_5 == 300
\* pd.Timedelta(minutes=1), the unit an offset must be a multiple of
ONE_MINUTE == 60
\* pd.Timedelta(hours=1), the largest offset
ONE_HOUR == 3600
\* DataTimeframe.DAILY, in seconds
DAILY == 86400
\* clean_ohlcv's default bfill_data_start_threshold for daily and longer
\* timeframes, pd.Timedelta(days=1)
BFILL_DAILY == 86400
\* and for shorter ones, pd.Timedelta(minutes=60)
BFILL_INTRADAY == 3600
\* np.isclose(..., rtol=0.01): the tolerance is 1 / RTOL_INV
RTOL_INV == 100
\* np.isclose's default atol=1e-8 is 1 / (RTOL_INV * ATOL_OVER_RTOL)
ATOL_OVER_RTOL == 1000000

---------------------------------------------------------------------------
(* Values.                                                                 *)

None == <<>>
Some(v) == <<v>>
IsNone(x) == x = <<>>
Get(x) == x[1]

Abs(x) == IF x < 0 THEN -x ELSE x

RECURSIVE Gcd(_, _)
Gcd(a, b) == IF b = 0 THEN a ELSE Gcd(b, a % b)

\* the fraction n / d (d # 0) in lowest terms with a positive denominator
Frac(n, d) ==
    LET g == Gcd(Abs(n), Abs(d))
        s == IF d < 0 THEN -1 ELSE 1
    IN  <<(s * n) \div g, (s * d) \div g>>

FracOfInt(n) == <<n, 1>>
FracAdd(a, b) == Frac(a[1] * b[2] + b[1] * a[2], a[2] * b[2])
FracIsZero(a) == a[1] = 0

Ok(v) == [ok |-> TRUE, err |-> "none", val |-> v]
Raise(e) == [ok |-> FALSE, err |-> e, val |-> <<>>]

RECURSIVE SumSeq(_)
SumSeq(s) == IF s = <<>> THEN 0 ELSE Head(s) + SumSeq(Tail(s))

RECURSIVE FracSumSeq(_)
FracSumSeq(s) == IF s = <<>> THEN FracOfInt(0) ELSE FracAdd(Head(s), FracSumSeq(Tail(s)))

MaxOf(S) == CHOOSE x \in S : \A y \in S : y <= x
MinOf(S) == CHOOSE x \in S : \A y \in S : x <= y

---------------------------------------------------------------------------
(* OHLCVAggSpec.                                                           *)

\* OHLCVAggSpec.validate_ohlcvaggspec: the error raised, or "none"
validate_ohlcvaggspec(self) ==
    IF self.timeframe \notin {MIN_1, MIN_5} THEN "NotImplementedError"
    ELSE IF self.offset < 0 THEN "ValueError"
    ELSE IF self.offset > 0 /\ self.offset % ONE_MINUTE # 0 THEN "ValueError"
    ELSE IF self.offset > 0 /\ self.offset > self.timeframe THEN "ValueError"
    ELSE IF self.offset > 0 /\ self.offset > ONE_HOUR THEN "NotImplementedError"
    ELSE "none"

\* OHLCVAggSpec(ticker=..., timeframe=..., offset=...)
OHLCVAggSpec(fields) ==
    LET e == validate_ohlcvaggspec(fields)
    IN  IF e = "none" THEN Ok(fields) ELSE Raise(e)

---------------------------------------------------------------------------
(* OHLCVAgg.                                                               *)

\* np.isclose(transactions / volume, avg_size, rtol=0.01), volume # 0:
\*   |t/v - n/d| <= atol + rtol * |n/d|
\* multiplied through by RTOL_INV * |v| * d; the atol term is
\* |v| * d / ATOL_OVER_RTOL, of which only the whole part can matter
\* because every other term is a whole number.
isclose_ratio(transactions, volume, avg_size) ==
    LET n == avg_size[1]
        d == avg_size[2]
    IN  RTOL_INV * Abs(transactions * d - n * volume)
            <= Abs(n) * Abs(volume) + (Abs(volume) * d) \div ATOL_OVER_RTOL

\* OHLCVAgg.validate_ohlcvagg: the error raised, or "none"
validate_ohlcvagg_NoTransactionsCheck(self) ==
    IF self.end_ts - self.start_ts # self.timeframe THEN "ValueError"
    ELSE IF self.volume = 0
         THEN IF ~FracIsZero(self.avg_size) THEN "ValueError" ELSE "none"
         ELSE IF ~isclose_ratio(self.transactions, self.volume, self.avg_size)
              THEN "ValueError" ELSE "none"

validate_ohlcvagg(self) ==
    IF self.end_ts - self.start_ts # self.timeframe THEN "ValueError"
    ELSE IF self.volume = 0
         THEN IF self.transactions # 0 THEN "ValueError"
              ELSE IF ~FracIsZero(self.avg_size) THEN "ValueError"
              ELSE "none"
         ELSE IF ~isclose_ratio(self.transactions, self.volume, self.avg_size)
              THEN "ValueError" ELSE "none"

\* OHLCVAgg(...): the inherited validator runs first, then validate_ohlcvagg
OHLCVAgg(fields) ==
    LET e1 == validate_ohlcvaggspec(fields)
        e2 == validate_ohlcvagg(fields)
    IN  IF e1 # "none" THEN Raise(e1)
        ELSE IF e2 # "none" THEN Raise(e2)
        ELSE Ok(fields)

\* OHLCVAgg.from_series(series, **addl_fields): model_validate of the merged
\* dict, addl_fields overriding the series' entries
from_series(series, addl_fields) ==
    OHLCVAgg([k \in DOMAIN series \cup DOMAIN addl_fields |->
                 IF k \in DOMAIN addl_fields THEN addl_fields[k] ELSE series[k]])

\* OHLCVAgg.create(...): end_ts, transactions and avg_size are optional
create(a) ==
    LET end_ts == IF IsNone(a.end_ts) THEN a.start_ts + a.timeframe ELSE Get(a.end_ts)
        bar(t, s) == OHLCVAgg(
            [ticker |-> a.ticker, timeframe |-> a.timeframe, offset |-> 0,
             start_ts |-> a.start_ts, end_ts |-> end_ts,
             open |-> a.open, high |-> a.high, low |-> a.low, close |-> a.close,
             volume |-> a.volume, vwap |-> a.vwap,
             transactions |-> t, avg_size |-> s])
    IN  IF IsNone(a.transactions)
        THEN IF IsNone(a.avg_size) THEN Raise("ValueError")
             ELSE bar(a.volume * Get(a.avg_size), FracOfInt(Get(a.avg_size)))
        ELSE IF IsNone(a.avg_size)
             THEN IF a.volume = 0 THEN Raise("ZeroDivisionError")
                  ELSE bar(Get(a.transactions), Frac(Get(a.transactions), a.volume))
             ELSE bar(Get(a.transactions), FracOfInt(Get(a.avg_size)))

\* pd.DataFrame([agg.to_series() ...]).sort_index(): the rows by start_ts
RECURSIVE sort_index(_)
sort_index(aggs) ==
    IF aggs = <<>> THEN <<>>
    ELSE LET i == CHOOSE i \in 1..Len(aggs) :
                     \A j \in 1..Len(aggs) :
                        /\ aggs[i].start_ts <= aggs[j].start_ts
                        /\ (aggs[i].start_ts = aggs[j].start_ts => i <= j)
             rest == [k \in 1..(Len(aggs) - 1) |-> IF k < i THEN aggs[k] ELSE aggs[k + 1]]
         IN  <<aggs[i]>> \o sort_index(rest)

\* OHLCVAgg.create_from_aggs(spec, aggs).  The frame is indexed by the
\* sub-bars' start_ts, and both start_ts and end_ts are read off that index.
create_from_aggs(spec, aggs) ==
    IF aggs = <<>> THEN Raise("IndexError")
    ELSE
    LET df == sort_index(aggs)
        n == Len(df)
        start_ts == df[1].start_ts
        end_ts == df[n].start_ts
    IN  OHLCVAgg(
            [ticker |-> spec.ticker, timeframe |-> spec.timeframe, offset |-> spec.offset,
             start_ts |-> start_ts, end_ts |-> end_ts,
             open |-> df[1].open,
             high |-> MaxOf({df[i].high : i \in 1..n}),
             low |-> MinOf({df[i].low : i \in 1..n}),
             close |-> df[n].close,
             volume |-> SumSeq([i \in 1..n |-> df[i].volume]),
             vwap |-> SumSeq([i \in 1..n |-> df[i].vwap]),
             transactions |-> SumSeq([i \in 1..n |-> df[i].transactions]),
             avg_size |-> LET s == FracSumSeq([i \in 1..n |-> df[i].avg_size])
                          IN  Frac(s[1], s[2] * n)])

\* OHLCVAggSpec.__hash__: hash((ticker, timeframe)).  The builtin hash of a
\* tuple is modelled as the tuple itself, i.e. as free of collisions.
OHLCVAggSpec_hash_WithOffset(self) == <<self.ticker, self.timeframe, self.offset>>

OHLCVAggSpec_hash(self) == <<self.ticker, self.timeframe>>

\* OHLCVAgg.__hash__: hash((ticker, timeframe, start_ts))
OHLCVAgg_hash(self) == <<self.ticker, self.timeframe, self.start_ts>>

\* hash(x): the __hash__ of x's class
hash(x) == IF "start_ts" \in DOMAIN x THEN OHLCVAgg_hash(x) ELSE OHLCVAggSpec_hash(x)

\* OHLCVAggSpec.__eq__, inherited by OHLCVAgg: hash(self) == hash(other)
OHLCVAggSpec_eq(self, other) == hash(self) = hash(other)

---------------------------------------------------------------------------
(* The calls of the bar component.                                         *)

Tickers == {"AAPL", "MSFT"}

SpecInputs ==
    [ticker : Tickers, timeframe : {MIN_1, MIN_5, 3 * MIN_5},
     offset : {-ONE_MINUTE, 0, 30, ONE_MINUTE, 2 * ONE_MINUTE, MIN_5,
               MIN_5 + ONE_MINUTE, ONE_HOUR + ONE_MINUTE}]

ValidSpecs ==
    {s \in [ticker : Tickers, timeframe : {MIN_1, MIN_5}, offset : {0, ONE_MINUTE}] :
        OHLCVAggSpec(s).ok}

BarInputs ==
    [ticker : {"AAPL"}, timeframe : {MIN_1, MIN_5}, offset : {0, ONE_MINUTE},
     start_ts : {0, MIN_1}, end_ts : {MIN_1, 2 * MIN_1, MIN_5, MIN_5 + MIN_1},
     open : {2}, high : {3}, low : {1}, close : {2}, vwap : {2},
     volume : 0..2, transactions : 0..2,
     avg_size : {FracOfInt(0), Frac(1, 2), FracOfInt(1), FracOfInt(2)}]

CreateInputs ==
    [ticker : {"AAPL"}, timeframe : {MIN_1, MIN_5}, start_ts : {0},
     end_ts : {None, Some(MIN_1), Some(MIN_5)},
     open : {2}, high : {3}, low : {1}, close : {2}, vwap : {2},
     volume : 0..2,
     transactions : {None} \cup {Some(t) : t \in 0..2},
     avg_size : {None} \cup {Some(s) : s \in 0..2}]

\* the price and activity fields of the 1-minute sub-bars handed to
\* create_from_aggs
SubBarShapes ==
    { [open |-> 2, high |-> 3, low |-> 1, close |-> 2, vwap |-> 2,
       volume |-> 1, transactions |-> 1, avg_size |-> FracOfInt(1)],
      [open |-> 3, high |-> 4, low |-> 0, close |-> 1, vwap |-> 3,
       volume |-> 2, transactions |-> 1, avg_size |-> Frac(1, 2)],
      [open |-> 2, high |-> 2, low |-> 2, close |-> 2, vwap |-> 0,
       volume |-> 0, transactions |-> 0, avg_size |-> FracOfInt(0)] }

\* the 1-minute bar of shape sh starting at start_ts
SubBar(sh, start_ts) ==
    OHLCVAgg([ticker |-> "AAPL", timeframe |-> MIN_1, offset |-> 0,
              start_ts |-> start_ts, end_ts |-> start_ts + MIN_1,
              open |-> sh.open, high |-> sh.high, low |-> sh.low, close |-> sh.close,
              vwap |-> sh.vwap, volume |-> sh.volume,
              transactions |-> sh.transactions, avg_size |-> sh.avg_size]).val

\* the lists of n consecutive 1-minute bars from MIN_5 on, in increasing or
\* decreasing order
AggLists(n) ==
    { [i \in 1..n |->
          SubBar(shapes[i], MIN_5 + MIN_1 * ((IF asc THEN i ELSE n + 1 - i) - 1))] :
      shapes \in [1..n -> SubBarShapes], asc \in BOOLEAN }

AggSpecs ==
    { [ticker |-> "AAPL", timeframe |-> MIN_1, offset |-> 0],
      [ticker |-> "AAPL", timeframe |-> MIN_5, offset |-> 0],
      [ticker |-> "AAPL", timeframe |-> MIN_5, offset |-> ONE_MINUTE] }

\* bars to compare: two shapes that differ in offset, prices and volume
EqBars ==
    { OHLCVAgg([ticker |-> k, timeframe |-> tf, offset |-> sh.offset,
                start_ts |-> st, end_ts |-> st + tf,
                open |-> sh.open, high |-> sh.open + 1, low |-> sh.open - 1,
                close |-> sh.open, vwap |-> sh.open, volume |-> sh.volume,
                transactions |-> sh.volume, avg_size |-> FracOfInt(1)]).val :
        k \in Tickers, tf \in {MIN_1, MIN_5}, st \in {0, MIN_5},
        sh \in {[offset |-> 0, open |-> 2, volume |-> 1],
                [offset |-> ONE_MINUTE, open |-> 3, volume |-> 2]} }

InitBar ==
    /\ pc = "ready" /\ ret = None
    /\ \/ \E a \in SpecInputs : call = [op |-> "OHLCVAggSpec", args |-> a]
       \/ \E a \in BarInputs : call = [op |-> "OHLCVAgg", args |-> a]
       \/ \E a \in BarInputs : call = [op |-> "from_series", args |-> a]
       \/ \E a \in CreateInputs : call = [op |-> "create", args |-> a]
       \/ \E s \in AggSpecs : \E n \in 1..MaxAggs : \E l \in AggLists(n) :
             call = [op |-> "create_from_aggs", spec |-> s, aggs |-> l]
       \/ \E a \in ValidSpecs, b \in ValidSpecs, c \in ValidSpecs :
             call = [op |-> "eq_spec", a |-> a, b |-> b, c |-> c]
       \/ \E a \in EqBars, b \in EqBars, c \in EqBars :
             call = [op |-> "eq_bar", a |-> a, b |-> b, c |-> c]

Return(r) == pc' = "done" /\ ret' = r /\ UNCHANGED call

NewOHLCVAggSpec ==
    /\ pc = "ready" /\ call.op = "OHLCVAggSpec"
    /\ Return(OHLCVAggSpec(call.args))

NewOHLCVAgg ==
    /\ pc = "ready" /\ call.op = "OHLCVAgg"
    /\ Return(OHLCVAgg(call.args))

\* the series carries the bar's own fields, addl_fields the specification's
FromSeries ==
    /\ pc = "ready" /\ call.op = "from_series"
    /\ Return(from_series(
           [k \in DOMAIN call.args \ {"timeframe", "offset"} |-> call.args[k]],
           [k \in {"timeframe", "offset"} |-> call.args[k]]))

Create ==
    /\ pc = "ready" /\ call.op = "create"
    /\ Return(create(call.args))

CreateFromAggs ==
    /\ pc = "ready" /\ call.op = "create_from_aggs"
    /\ Return(create_from_aggs(call.spec, call.aggs))

\* a == b, b == a, b == c, a == c, a == a and the three hashes
Compare ==
    /\ pc = "ready" /\ call.op \in {"eq_spec", "eq_bar"}
    /\ Return(Ok([ab |-> OHLCVAggSpec_eq(call.a, call.b),
                  ba |-> OHLCVAggSpec_eq(call.b, call.a),
                  bc |-> OHLCVAggSpec_eq(call.b, call.c),
                  ac |-> OHLCVAggSpec_eq(call.a, call.c),
                  aa |-> OHLCVAggSpec_eq(call.a, call.a),
                  ha |-> hash(call.a), hb |-> hash(call.b), hc |-> hash(call.c)]))

NextBar ==
    \/ NewOHLCVAggSpec
    \/ NewOHLCVAgg
    \/ FromSeries
    \/ Create
    \/ CreateFromAggs
    \/ Compare

SpecBar == InitBar /\ [][NextBar]_vars

---------------------------------------------------------------------------
(* Claims about the bar component, checked under SpecBar.                  *)

Done(op) == pc = "done" /\ call.op = op

\* aggs is an ordered, gapless list of 1-minute bars that exactly covers
\* one 5-minute window, and spec asks for a 5-minute bar
CoversFiveMinutes(spec, aggs) ==
    /\ spec.timeframe = MIN_5
    /\ Len(aggs) * MIN_1 = MIN_5
    /\ \A i \in 1..Len(aggs) : aggs[i].end_ts - aggs[i].start_ts = MIN_1
    /\ \A i \in 1..(Len(aggs) - 1) : aggs[i + 1].start_ts = aggs[i].end_ts

\* C1: for every ordered, gapless list of 1-minute bars that exactly covers
\* one 5-minute window, create_from_aggs succeeds and returns the bar that
\* spans the window, with open of the first bar, close of the last bar, the
\* extrema of high and low, and the sums of volume and transactions.
C1_AggregatesCoveringBars ==
    (Done("create_from_aggs") /\ CoversFiveMinutes(call.spec, call.aggs)) =>
        LET aggs == call.aggs
            n == Len(aggs)
        IN  /\ ret.ok
            /\ ret.val.start_ts = aggs[1].start_ts
            /\ ret.val.end_ts - ret.val.start_ts = call.spec.timeframe
            /\ ret.val.open = aggs[1].open
            /\ ret.val.close = aggs[n].close
            /\ ret.val.high = MaxOf({aggs[i].high : i \in 1..n})
            /\ ret.val.low = MinOf({aggs[i].low : i \in 1..n})
            /\ ret.val.volume = SumSeq([i \in 1..n |-> aggs[i].volume])
            /\ ret.val.transactions = SumSeq([i \in 1..n |-> aggs[i].transactions])

\* what the specification of a BarSpec rules out
InvalidSpecInput(a) ==
    \/ a.timeframe \notin {MIN_1, MIN_5}
    \/ a.offset < 0
    \/ /\ a.offset # 0
       /\ \/ a.offset % ONE_MINUTE # 0
          \/ ~(a.offset < a.timeframe)
          \/ a.offset > ONE_HOUR

BarPaths == {"OHLCVAgg", "from_series", "create", "create_from_aggs"}

BarInvariant(b) ==
    /\ b.end_ts - b.start_ts = b.timeframe
    /\ b.volume = 0 => (b.transactions = 0 /\ FracIsZero(b.avg_size))

\* C3: every bar any construction path returns has end_ts - start_ts equal
\* to its timeframe and, when volume is 0, transactions and avg_size 0; an
\* attempt to construct a bar violating either raises and returns no bar.
C3_ReturnedBarsAreConsistent ==
    /\ (pc = "done" /\ call.op \in BarPaths /\ ret.ok) => BarInvariant(ret.val)
    /\ (pc = "done" /\ call.op \in {"OHLCVAgg", "from_series"}
            /\ ~BarInvariant(call.args)) => (~ret.ok /\ ret.val = None)

\* C3's case: a zero-volume bar with non-zero transactions and the right
\* duration is refused
C3_Witness ==
    /\ Done("OHLCVAgg")
    /\ call.args.volume = 0 /\ call.args.transactions # 0
    /\ FracIsZero(call.args.avg_size)
    /\ call.args.end_ts - call.args.start_ts = call.args.timeframe
    /\ call.args.offset = 0
    /\ ~ret.ok

SameSpecKey(a, b) == a.ticker = b.ticker /\ a.timeframe = b.timeframe
SameBarKey(a, b) == SameSpecKey(a, b) /\ a.start_ts = b.start_ts

\* C4: two BarSpecs are equal, and hash equal, exactly when their
\* (ticker, timeframe) are equal; two Bars exactly when their
\* (ticker, timeframe, start_ts) are equal; whatever the other fields.
\* Equality is reflexive, symmetric and transitive.
C4_EqualityByKey ==
    (pc = "done" /\ call.op \in {"eq_spec", "eq_bar"}) =>
        LET r == ret.val
            same(x, y) == IF call.op = "eq_spec" THEN SameSpecKey(x, y)
                          ELSE SameBarKey(x, y)
        IN  /\ r.ab <=> same(call.a, call.b)
            /\ (r.ha = r.hb) <=> same(call.a, call.b)
            /\ r.aa
            /\ r.ab <=> r.ba
            /\ (r.ab /\ r.bc) => r.ac
            /\ r.ab => r.ha = r.hb

\* C4's case: two specifications with the same ticker and timeframe and
\* different offsets have been compared
C4_Witness ==
    /\ Done("eq_spec")
    /\ SameSpecKey(call.a, call.b) /\ call.a.offset # call.b.offset
    /\ ret.val.ab

---------------------------------------------------------------------------
(* Time-series tables.  A table is the sequence of its rows in index       *)
(* order; a row holds its index ts and one optional cell per column.       *)

\* OHLCV_CNAMES
OHLCV_CNAMES == {"open", "high", "low", "close", "volume", "vwap", "transactions"}
\* fill_ohlcv's default constant_cnames and fill_zero_cnames
constant_cnames == {"ticker", "table"}
fill_zero_cnames == {"volume", "vwap", "transactions", "avg_size"}
\* the columns of the tables of this model (those of the tests' ohlcv_df)
Columns == OHLCV_CNAMES \cup {"avg_size", "ticker"}

Col(df, cname) == [i \in 1..Len(df) |-> df[i][cname]]
SetCol(df, cname, col) == [i \in 1..Len(df) |-> [df[i] EXCEPT ![cname] = col[i]]]

\* df.isnull().sum().sum() == 0 over the columns cnames
NoNulls(df, cnames) == \A i \in 1..Len(df) : \A c \in cnames : ~IsNone(df[i][c])

\* Series.dropna()
RECURSIVE dropna(_)
dropna(col) ==
    IF col = <<>> THEN <<>>
    ELSE IF IsNone(Head(col)) THEN dropna(Tail(col))
    ELSE <<Head(col)>> \o dropna(Tail(col))

\* Series.fillna(v) with a scalar
fillna(col, v) == [i \in 1..Len(col) |-> IF IsNone(col[i]) THEN Some(v) ELSE col[i]]

\* Series.fillna(other) with a Series on the same index
fillna_series(col, other) ==
    [i \in 1..Len(col) |-> IF IsNone(col[i]) THEN other[i] ELSE col[i]]

\* Series.ffill(): a null cell takes the nearest non-null cell before it
ffill_None(col) == col

ffill(col) ==
    [i \in 1..Len(col) |->
        IF ~IsNone(col[i]) \/ \A j \in 1..(i - 1) : IsNone(col[j]) THEN col[i]
        ELSE col[CHOOSE j \in 1..(i - 1) :
                    ~IsNone(col[j]) /\ \A k \in (j + 1)..(i - 1) : IsNone(col[k])]]

\* copy_constant_col_to_all_rows(df, cname): the column's single non-null
\* value in every row; an error when there is none or more than one
copy_constant_col_to_all_rows(df, cname) ==
    LET vals == {Get(df[i][cname]) : i \in {j \in 1..Len(df) : ~IsNone(df[j][cname])}}
    IN  IF Cardinality(vals) # 1 THEN Raise("ValueError")
        ELSE Ok(SetCol(df, cname, [i \in 1..Len(df) |-> Some(CHOOSE v \in vals : TRUE)]))

\* fill_ohlcv, lines 79-81: the fill_zero_cnames columns present, nulls to 0
RECURSIVE fill_zero(_, _)
fill_zero(df, cnames) ==
    IF cnames = {} THEN df
    ELSE LET c == CHOOSE c \in cnames : TRUE
         IN  fill_zero(SetCol(df, c, fillna(Col(df, c), 0)), cnames \ {c})

\* fill_ohlcv, line 86, back-filling close from the first non-null close
fill_close_FirstClose(df, first_open) ==
    LET closes == dropna(Col(df, "close"))
    IN  SetCol(df, "close",
               fillna(Col(df, "close"),
                      IF closes = <<>> THEN first_open ELSE Get(closes[1])))

\* fill_ohlcv, line 86: the leading null closes take first_open
fill_close(df, first_open) ==
    SetCol(df, "close", fillna(Col(df, "close"), first_open))

\* fill_ohlcv, lines 88-89, overwriting the three columns with close
fill_open_high_low_Overwrite(df) ==
    [i \in 1..Len(df) |->
        [df[i] EXCEPT !["open"] = df[i]["close"], !["high"] = df[i]["close"],
                      !["low"] = df[i]["close"]]]

\* fill_ohlcv, lines 88-89: null open, high, low take the row's close
fill_open_high_low(df) ==
    LET close == Col(df, "close")
        f(d, c) == SetCol(d, c, fillna_series(Col(d, c), close))
    IN  f(f(f(df, "open"), "high"), "low")

\* fill_ohlcv(df) with the default constant_cnames and fill_zero_cnames
fill_ohlcv(df) ==
    LET c1 == copy_constant_col_to_all_rows(df, "ticker")
        df1 == c1.val
        df2 == fill_zero(df1, fill_zero_cnames \cap Columns)
        df3 == SetCol(df2, "close", ffill(Col(df2, "close")))
        opens == dropna(Col(df3, "open"))
        first_open == Get(opens[1])
        df4 == fill_close(df3, first_open)
        df5 == fill_open_high_low(df4)
    IN  IF "ticker" \in constant_cnames \cap Columns /\ ~c1.ok THEN c1
        ELSE IF opens = <<>> THEN Raise("IndexError")
        ELSE IF ~NoNulls(df5, OHLCV_CNAMES) THEN Raise("AssertionError")
        ELSE Ok(df5)

---------------------------------------------------------------------------
(* The calls of fill_ohlcv.                                                *)

\* a row with every cell present; its values differ from column to column
\* and from level to level
FullRow(level, ticker) ==
    [ticker |-> Some(ticker),
     open |-> Some(10 * level + 2), high |-> Some(10 * level + 4),
     low |-> Some(10 * level + 1), close |-> Some(10 * level + 3),
     volume |-> Some(100 * level), vwap |-> Some(10 * level + 2),
     transactions |-> Some(5 * level), avg_size |-> Some(20)]

\* the row with the cells of the columns in nulls set to null
Nulled(row, nulls) == [c \in DOMAIN row |-> IF c \in nulls THEN None ELSE row[c]]

NullPatterns ==
    { {}, Columns, {"close"}, {"open"}, {"open", "close"},
      {"open", "high", "low", "close"}, fill_zero_cnames }

RowValues ==
    {Nulled(FullRow(level, "AAPL"), nulls) : level \in {1, 2}, nulls \in NullPatterns}
    \cup {FullRow(1, "MSFT")}

\* the table of these rows on a 5-minute index
Table(rows) == [i \in 1..Len(rows) |-> [c \in Columns \cup {"ts"} |->
                   IF c = "ts" THEN i * MIN_5 ELSE rows[i][c]]]

\* the tables of n rows
FillTables(n) == {Table(rows) : rows \in [1..n -> RowValues]}

InitFill ==
    /\ pc = "ready" /\ ret = None
    /\ \E n \in 0..MaxRows : \E t \in FillTables(n) : call = [op |-> "fill", df |-> t]

Fill ==
    /\ pc = "ready" /\ call.op = "fill"
    /\ Return(fill_ohlcv(call.df))

\* fill applied to the table fill returned
FillAgain ==
    /\ pc = "done" /\ call.op = "fill" /\ ret.ok
    /\ pc' = "refilled"
    /\ call' = [op |-> "fill", df |-> ret.val]
    /\ ret' = fill_ohlcv(ret.val)

NextFill ==
    \/ Fill
    \/ FillAgain

SpecFill == InitFill /\ [][NextFill]_vars

---------------------------------------------------------------------------
(* Claims about fill_ohlcv, checked under SpecFill.                        *)

PriceCols == {"open", "high", "low"}

\* row i's close is null and no row before it has a close
LeadingNullClose(df, i) == \A j \in 1..i : IsNone(df[j]["close"])

\* a close precedes row i
HasPriorClose(df, i) == \E j \in 1..(i - 1) : ~IsNone(df[j]["close"])

\* the close of the last row before i that has one
PriorClose(df, i) ==
    LET j == CHOOSE j \in 1..(i - 1) :
                 ~IsNone(df[j]["close"]) /\ \A k \in (j + 1)..(i - 1) : IsNone(df[k]["close"])
    IN  df[j]["close"]

\* the first non-null open of the series
FirstOpen(df) ==
    LET j == CHOOSE j \in 1..Len(df) :
                 ~IsNone(df[j]["open"]) /\ \A k \in 1..(j - 1) : IsNone(df[k]["open"])
    IN  df[j]["open"]

FullyNull(row) == \A c \in Columns : IsNone(row[c])
NoNullIn(row) == \A c \in Columns : ~IsNone(row[c])

\* C7: after fill, every leading row whose close was null with no earlier
\* non-null close has close equal to the first non-null open of the series,
\* open, high and low equal to that value where they were null, and every
\* activity column 0 where it was null.
C7_LeadingRowsTakeFirstOpen ==
    (Done("fill") /\ ret.ok) =>
        \A i \in 1..Len(call.df) :
            LeadingNullClose(call.df, i) =>
                /\ ret.val[i]["close"] = FirstOpen(call.df)
                /\ \A c \in PriceCols :
                      IsNone(call.df[i][c]) => ret.val[i][c] = FirstOpen(call.df)
                /\ \A c \in fill_zero_cnames :
                      IsNone(call.df[i][c]) => ret.val[i][c] = Some(0)

\* C7's case: the first row was fully null and the first open comes later
C7_Witness ==
    /\ Done("fill") /\ ret.ok
    /\ Len(call.df) >= 2
    /\ FullyNull(call.df[1])
    /\ ret.val[1]["close"] = call.df[2]["open"]
    /\ ret.val[1]["close"] # ret.val[2]["close"]

\* C8: after fill, every row that was fully null and has an earlier row
\* with a non-null close has close equal to the most recent prior non-null
\* close, open = high = low = that close, and volume, vwap, transactions
\* and avg_size 0; rows without a null keep all their values.
C8_GapRowsTakePriorClose ==
    (Done("fill") /\ ret.ok) =>
        \A i \in 1..Len(call.df) :
            /\ (FullyNull(call.df[i]) /\ HasPriorClose(call.df, i)) =>
                  /\ ret.val[i]["close"] = PriorClose(call.df, i)
                  /\ \A c \in PriceCols : ret.val[i][c] = PriorClose(call.df, i)
                  /\ \A c \in fill_zero_cnames : ret.val[i][c] = Some(0)
            /\ NoNullIn(call.df[i]) => ret.val[i] = call.df[i]

\* C8's case: a fully null last row two rows after the last close
C8_Witness ==
    /\ Done("fill") /\ ret.ok
    /\ Len(call.df) >= 3
    /\ NoNullIn(call.df[1])
    /\ IsNone(call.df[2]["close"])
    /\ FullyNull(call.df[3])
    /\ ret.val[3]["open"] = call.df[1]["close"]

---------------------------------------------------------------------------
(* reindex_timeseries_df and the market calendar.  Their code is not part  *)
(* of the sources at hand: they follow the specification (4.1, 4.2) and    *)
(* the calls and tests that use them.                                      *)

\* timestamps count seconds from the midnight that starts a Monday
\* (Monday 2025-11-24)
Date(ts) == ts \div DAILY
TimeOfDay(ts) == ts % DAILY

\* the nine market holidays of the year that follows, as days from that
\* Monday: Thanksgiving (Thu 2025-11-27), Christmas, New Year's Day, MLK Day,
\* Presidents' Day, Good Friday, Memorial Day, Independence Day (Saturday
\* 2026-07-04, observed on Friday 2026-07-03) and Labor Day
Holidays == {3, 31, 38, 56, 84, 130, 182, 221, 287}

\* a valid trading day: a weekday that is no market holiday
IsMarketDay(d) == d % 7 \notin {5, 6} /\ d \notin Holidays

\* lo <= x <= hi under an inclusivity setting
Within(x, lo, hi, inclusive) ==
    /\ IF inclusive \in {"both", "left"} THEN lo <= x ELSE lo < x
    /\ IF inclusive \in {"both", "right"} THEN x <= hi ELSE x < hi

\* the expected grid: start + k * freq within [start, end] under
\* start_end_inclusive, in the between_time window, on valid market days
Grid(start, end, a) ==
    { t \in {start + k * a.freq : k \in 0..((end - start) \div a.freq)} :
        /\ Within(t, start, end, a.start_end_inclusive)
        /\ IsNone(a.between_time)
              \/ Within(TimeOfDay(t), a.between_time[1], a.between_time[2],
                        a.between_time_inclusive)
        /\ a.respect_valid_market_days => IsMarketDay(Date(t)) }

\* the elements of a set of timestamps in increasing order
RECURSIVE Sorted(_)
Sorted(S) == IF S = {} THEN <<>> ELSE <<MinOf(S)>> \o Sorted(S \ {MinOf(S)})

NullRow(ts) == [c \in Columns \cup {"ts"} |-> IF c = "ts" THEN ts ELSE None]

\* reindex with the rows shifted: each grid timestamp takes the row of the
\* input at the same position
reindex_ByPosition(df, grid) ==
    [i \in 1..Len(grid) |->
        IF i <= Len(df) THEN [df[i] EXCEPT !["ts"] = grid[i]] ELSE NullRow(grid[i])]

\* DataFrame.reindex(grid): the input's row where it has one, a fully null
\* row elsewhere; input rows off the grid are dropped
reindex(df, grid) ==
    [i \in 1..Len(grid) |->
        IF \E j \in 1..Len(df) : df[j]["ts"] = grid[i]
        THEN df[CHOOSE j \in 1..Len(df) : df[j]["ts"] = grid[i]]
        ELSE NullRow(grid[i])]

\* reindex_timeseries_df(df, freq, start, end, between_time,
\*     between_time_inclusive, respect_valid_market_days, start_end_inclusive):
\* start and end default to the first and last timestamp of df
reindex_timeseries_df(df, a) ==
    IF df = <<>> /\ (IsNone(a.start) \/ IsNone(a.end)) THEN Raise("IndexError")
    ELSE
    LET start == IF IsNone(a.start) THEN df[1]["ts"] ELSE Get(a.start)
        end == IF IsNone(a.end) THEN df[Len(df)]["ts"] ELSE Get(a.end)
    IN  Ok(reindex(df, Sorted(Grid(start, end, a))))

\* get_first_nonnull_ts(df, how='any'): the index of the first row that
\* holds any non-null value
HasNonNull(row) == \E c \in Columns : ~IsNone(row[c])

get_first_nonnull_ts(df) ==
    df[CHOOSE i \in 1..Len(df) :
          HasNonNull(df[i]) /\ \A j \in 1..(i - 1) : ~HasNonNull(df[j])]["ts"]

---------------------------------------------------------------------------
(* clean_ohlcv.                                                            *)

\* clean_ohlcv, lines 164-170: 'default' (None here) resolved
threshold_of(bfill_data_start_threshold, timeframe) ==
    IF IsNone(bfill_data_start_threshold)
    THEN IF timeframe >= DAILY THEN BFILL_DAILY ELSE BFILL_INTRADAY
    ELSE Get(bfill_data_start_threshold)

\* the outcome of clean_ohlcv and the step that produced it: "reindex"
\* (lines 143-154), "constants" (160-162), "fill" (173), "split" (175-184)
Via(r, step) == [ok |-> r.ok, err |-> r.err, val |-> r.val, via |-> step]

\* df.loc[:first_observed_ts].iloc[:-1] and df.loc[first_observed_ts:]
before_rows(df, ts) == SelectSeq(df, LAMBDA row : row["ts"] < ts)
after_rows(df, ts) == SelectSeq(df, LAMBDA row : row["ts"] >= ts)

\* clean_ohlcv, line 172, with a strict comparison
within_threshold_Strict(gap, threshold) == gap < threshold

\* clean_ohlcv, line 172
within_threshold(gap, threshold) == gap <= threshold

\* clean_ohlcv, lines 175-184, filling the rows before the anchor as well
split_fill_FillsBefore(df, first_observed_ts) ==
    LET after == fill_ohlcv(after_rows(df, first_observed_ts))
        before == fill_ohlcv(before_rows(df, first_observed_ts) \o after.val)
    IN  IF ~after.ok THEN Via(after, "split") ELSE Via(before, "split")

\* clean_ohlcv, lines 175-184: the rows before the anchor are kept, the
\* rows from the anchor on are filled, and the two are concatenated
split_fill(df, first_observed_ts) ==
    LET before_df == before_rows(df, first_observed_ts)
        after == fill_ohlcv(after_rows(df, first_observed_ts))
        out == before_df \o after.val
    IN  IF ~after.ok THEN Via(after, "split")
        ELSE IF ~NoNulls(after_rows(out, first_observed_ts), Columns)
             THEN Via(Raise("AssertionError"), "split")
        ELSE Via(Ok(out), "split")

\* clean_ohlcv(df, timeframe, start, end, between_time,
\*     between_time_inclusive, respect_valid_market_days,
\*     bfill_data_start_threshold)
clean_ohlcv(df, a) ==
    LET r == reindex_timeseries_df(df,
                 [freq |-> a.timeframe, start |-> a.start, end |-> a.end,
                  between_time |-> a.between_time,
                  between_time_inclusive |-> a.between_time_inclusive,
                  respect_valid_market_days |-> a.respect_valid_market_days,
                  start_end_inclusive |-> "both"])
        first_observed_ts == get_first_nonnull_ts(r.val)
        c == copy_constant_col_to_all_rows(r.val, "ticker")
        threshold == threshold_of(a.bfill_data_start_threshold, a.timeframe)
    IN  IF ~r.ok THEN Via(r, "reindex")
        ELSE IF NoNulls(r.val, Columns) THEN Via(r, "reindex")
        ELSE IF ~c.ok THEN Via(c, "constants")
        ELSE IF within_threshold(first_observed_ts - c.val[1]["ts"], threshold)
             THEN Via(fill_ohlcv(c.val), "fill")
        ELSE split_fill(c.val, first_observed_ts)

---------------------------------------------------------------------------
(* The calls of reindex_timeseries_df and clean_ohlcv.                     *)

\* pd.Timedelta(minutes=30), the intraday timeframe of the model
HALF_HOUR == ONE_HOUR \div 2

\* the first timestamp of the observed tables: Wednesday 22:30 for the
\* intraday timeframe, Wednesday 00:00 for the daily one
T0(timeframe) == IF timeframe >= DAILY THEN 2 * DAILY ELSE 2 * DAILY + 45 * HALF_HOUR

\* an observed row: complete, or with nothing but its ticker
ObservedRow(kind, k, ts) ==
    LET row == IF kind = "full" THEN FullRow(k + 1, "AAPL")
               ELSE Nulled(FullRow(k + 1, "AAPL"), Columns \ {"ticker"})
    IN  [c \in Columns \cup {"ts"} |-> IF c = "ts" THEN ts ELSE row[c]]

\* the observed tables: at each T0 + k * timeframe no row or an observed row
ObservedTables(timeframe) ==
    { LET ks == Sorted({k \in 0..MaxSteps : kinds[k] # "absent"})
      IN  [i \in 1..Len(ks) |->
              ObservedRow(kinds[ks[i]], ks[i], T0(timeframe) + ks[i] * timeframe)] :
      kinds \in [0..MaxSteps -> {"absent", "full", "ticker"}] }

\* the grid filters of the reindex calls
GridFilters ==
    { [between_time |-> None, between_time_inclusive |-> "both",
       respect_valid_market_days |-> TRUE],
      [between_time |-> None, between_time_inclusive |-> "both",
       respect_valid_market_days |-> FALSE],
      [between_time |-> <<46 * HALF_HOUR, 47 * HALF_HOUR>>,
       between_time_inclusive |-> "both", respect_valid_market_days |-> FALSE],
      [between_time |-> <<46 * HALF_HOUR, 47 * HALF_HOUR>>,
       between_time_inclusive |-> "left", respect_valid_market_days |-> FALSE] }

\* start and end: the defaults, or the first and the last step
StartInputs(tf) == {None, Some(T0(tf))}
EndInputs(tf) == {None, Some(T0(tf) + MaxSteps * tf)}

InitClean ==
    /\ pc = "ready" /\ ret = None
    /\ \E tf \in {HALF_HOUR, DAILY} : \E df \in ObservedTables(tf) :
       \E start \in StartInputs(tf), end \in EndInputs(tf) :
          \/ \E incl \in {"both", "left", "right", "neither"}, f \in GridFilters :
                call = [op |-> "reindex", df |-> df,
                        args |-> [freq |-> tf, start |-> start, end |-> end,
                                  between_time |-> f.between_time,
                                  between_time_inclusive |-> f.between_time_inclusive,
                                  respect_valid_market_days |-> f.respect_valid_market_days,
                                  start_end_inclusive |-> incl]]
          \/ \E rvmd \in BOOLEAN, thr \in {None, Some(0)} :
                call = [op |-> "clean", df |-> df,
                        args |-> [timeframe |-> tf, start |-> start, end |-> end,
                                  between_time |-> None,
                                  between_time_inclusive |-> "both",
                                  respect_valid_market_days |-> rvmd,
                                  bfill_data_start_threshold |-> thr]]

Reindex ==
    /\ pc = "ready" /\ call.op = "reindex"
    /\ Return(reindex_timeseries_df(call.df, call.args))

Clean ==
    /\ pc = "ready" /\ call.op = "clean"
    /\ Return(clean_ohlcv(call.df, call.args))

NextClean ==
    \/ Reindex
    \/ Clean

SpecClean == InitClean /\ [][NextClean]_vars

---------------------------------------------------------------------------
(* Claims about clean_ohlcv and reindex_timeseries_df, checked under       *)
(* SpecClean.                                                              *)

Index(df) == [i \in 1..Len(df) |-> df[i]["ts"]]

StrictlyIncreasing(seq) == \A i \in 1..(Len(seq) - 1) : seq[i] < seq[i + 1]

\* the table clean_ohlcv's call of reindex_timeseries_df returns
CleanReindexed ==
    reindex_timeseries_df(call.df,
        [freq |-> call.args.timeframe, start |-> call.args.start, end |-> call.args.end,
         between_time |-> call.args.between_time,
         between_time_inclusive |-> call.args.between_time_inclusive,
         respect_valid_market_days |-> call.args.respect_valid_market_days,
         start_end_inclusive |-> "both"])

\* a clean call whose reindexed table has an anchor: a row with a value
CleanWithAnchor ==
    /\ Done("clean")
    /\ CleanReindexed.ok
    /\ \E i \in 1..Len(CleanReindexed.val) : HasNonNull(CleanReindexed.val[i])

\* the anchor: the first grid timestamp whose row has any non-null value
Anchor ==
    LET g == CleanReindexed.val
        i == CHOOSE i \in 1..Len(g) :
                 HasNonNull(g[i]) /\ \A j \in 1..(i - 1) : FullyNull(g[j])
    IN  g[i]["ts"]

LeadingGap == Anchor - CleanReindexed.val[1]["ts"]

\* 1 day when timeframe >= 1 day, 60 minutes otherwise
DefaultThreshold == IF call.args.timeframe >= 24 * ONE_HOUR THEN 24 * ONE_HOUR ELSE ONE_HOUR

Threshold ==
    IF IsNone(call.args.bfill_data_start_threshold) THEN DefaultThreshold
    ELSE Get(call.args.bfill_data_start_threshold)

\* C5: in clean, when the anchor lies more than bfill_start_threshold after
\* the grid's first timestamp, every row before the anchor keeps null open,
\* high, low, close, volume, vwap and transactions, every row from the anchor
\* on holds no null, and the result has exactly the reindexed grid's
\* timestamps, in increasing order.
C5_LongLeadingGapKeptNull ==
    (CleanWithAnchor /\ LeadingGap > Threshold /\ ret.ok) =>
        /\ Index(ret.val) = Index(CleanReindexed.val)
        /\ StrictlyIncreasing(Index(ret.val))
        /\ \A i \in 1..Len(ret.val) :
              IF ret.val[i]["ts"] < Anchor
              THEN \A c \in OHLCV_CNAMES : IsNone(ret.val[i][c])
              ELSE \A c \in Columns : ~IsNone(ret.val[i][c])

\* C5's case: a null row before the anchor was kept, a null row after it
\* was filled
C5_Witness ==
    /\ CleanWithAnchor /\ LeadingGap > Threshold /\ ret.ok
    /\ IsNone(call.args.bfill_data_start_threshold)
    /\ \E i \in 1..Len(ret.val) :
          /\ ret.val[i]["ts"] > Anchor
          /\ FullyNull(CleanReindexed.val[i])
          /\ ret.val[i]["volume"] = Some(0)

\* C6: in clean with the default threshold (1 day for timeframes of a day
\* or more, 60 minutes otherwise), the whole reindexed table is passed
\* through fill if and only if anchor - first grid timestamp <= threshold,
\* and then the returned table has no null in any OHLCV column.
C6_WholeFillIffWithinThreshold ==
    (CleanWithAnchor /\ IsNone(call.args.bfill_data_start_threshold)) =>
        /\ ret.via = "fill" <=> LeadingGap <= DefaultThreshold
        /\ (LeadingGap <= DefaultThreshold /\ ret.ok) => NoNulls(ret.val, OHLCV_CNAMES)

\* C6 as amended: the same for every reindexed table that holds a null; a
\* reindexed table without a null is returned as it is, without fill.
C6_WholeFillIffWithinThresholdWhenNulls ==
    (CleanWithAnchor /\ IsNone(call.args.bfill_data_start_threshold)) =>
        /\ ~NoNulls(CleanReindexed.val, Columns) =>
              (ret.via = "fill" <=> LeadingGap <= DefaultThreshold)
        /\ NoNulls(CleanReindexed.val, Columns) =>
              (ret.via = "reindex" /\ ret.ok /\ ret.val = CleanReindexed.val)
        /\ (LeadingGap <= DefaultThreshold /\ ret.ok) => NoNulls(ret.val, OHLCV_CNAMES)

\* C6's case: a leading gap of exactly the default threshold, filled
C6_Witness ==
    /\ CleanWithAnchor /\ IsNone(call.args.bfill_data_start_threshold)
    /\ LeadingGap = DefaultThreshold
    /\ ret.via = "fill" /\ ret.ok
    /\ ret.val[1]["volume"] = Some(0)

\* the start and end of a reindex call: given, or the first and last
\* timestamp of the input
ReindexStart == IF IsNone(call.args.start) THEN call.df[1]["ts"] ELSE Get(call.args.start)
ReindexEnd == IF IsNone(call.args.end) THEN call.df[Len(call.df)]["ts"] ELSE Get(call.args.end)

\* {start + k * freq} over [start, end] under an inclusivity setting
PlainGrid(inclusive) ==
    { t \in {ReindexStart + k * call.args.freq : k \in 0..MaxSteps} :
        /\ t <= ReindexEnd
        /\ inclusive \in {"left", "neither"} => t # ReindexEnd
        /\ inclusive \in {"right", "neither"} => t # ReindexStart }

\* t is in the between_time window and, if asked for, on a valid market day
PassesFilters(t) ==
    /\ \/ IsNone(call.args.between_time)
       \/ LET tod == t % (24 * ONE_HOUR)
              lo == call.args.between_time[1]
              hi == call.args.between_time[2]
          IN  CASE call.args.between_time_inclusive = "both" -> lo <= tod /\ tod <= hi
                [] call.args.between_time_inclusive = "left" -> lo <= tod /\ tod < hi
                [] call.args.between_time_inclusive = "right" -> lo < tod /\ tod <= hi
                [] OTHER -> lo < tod /\ tod < hi
    /\ call.args.respect_valid_market_days =>
          LET day == t \div (24 * ONE_HOUR)
          IN  day % 7 < 5 /\ day \notin Holidays

\* row i of the result is the input's row of that timestamp, or fully null
RowsFromInput(out, df) ==
    \A i \in 1..Len(out) :
        IF \E j \in 1..Len(df) : df[j]["ts"] = out[i]["ts"]
        THEN \E j \in 1..Len(df) : df[j] = out[i]
        ELSE FullyNull(out[i])

\* df has a row every freq from its first to its last timestamp, but for
\* `missing` interior rows
Gapless(df, missing) ==
    /\ df # <<>>
    /\ \A i \in 1..(Len(df) - 1) : (df[i + 1]["ts"] - df[i]["ts"]) % call.args.freq = 0
    /\ df[Len(df)]["ts"] - df[1]["ts"] = (Len(df) - 1 + missing) * call.args.freq

\* the row counts the claim derives, for a call with the given grid
RowCounts(out, df) ==
    LET a == call.args
        own_start == IsNone(a.start)
        own_end == IsNone(a.end)
    IN  /\ (Gapless(df, 0) /\ own_start /\ own_end /\ a.start_end_inclusive = "both")
              => out = df
        /\ (Gapless(df, 1) /\ own_start /\ own_end /\ a.start_end_inclusive = "both")
              => Len(out) = Len(df) + 1
        /\ (Gapless(df, 0) /\ own_start /\ ~own_end
                /\ ReindexEnd = df[Len(df)]["ts"] + a.freq)
              => /\ a.start_end_inclusive = "both" => Len(out) = Len(df) + 1
                 /\ a.start_end_inclusive = "left" => Len(out) = Len(df)
        /\ (Gapless(df, 0) /\ ~own_start /\ own_end
                /\ ReindexStart = df[1]["ts"] - a.freq /\ a.start_end_inclusive = "both")
              => (Len(out) = Len(df) + 1 /\ FullyNull(out[1]))

\* C10: the index of reindex's result is exactly the grid {start + k * freq}
\* over [start, end] under the boundary inclusivity setting, strictly
\* increasing; grid timestamps absent from the input are fully null rows,
\* input timestamps off the grid are dropped, the other rows keep their
\* values.  Hence a gapless table is returned unchanged, a dropped interior
\* row is restored, an end one interval past the last observation adds one
\* row with 'both' and none with 'left', a start one interval before the
\* first observation adds one leading row.
C10_ReindexOntoGrid ==
    (Done("reindex") /\ ret.ok) =>
        /\ Index(ret.val) = Sorted(PlainGrid(call.args.start_end_inclusive))
        /\ StrictlyIncreasing(Index(ret.val))
        /\ RowsFromInput(ret.val, call.df)
        /\ RowCounts(ret.val, call.df)

\* C10 as amended: the grid is further restricted to the between_time
\* window and, with respect_valid_market_days, to valid market days; the
\* row counts hold when these exclude no timestamp of [start, end].
C10_ReindexOntoFilteredGrid ==
    (Done("reindex") /\ ret.ok) =>
        /\ Index(ret.val) =
              Sorted({t \in PlainGrid(call.args.start_end_inclusive) : PassesFilters(t)})
        /\ StrictlyIncreasing(Index(ret.val))
        /\ RowsFromInput(ret.val, call.df)
        /\ (\A t \in PlainGrid("both") : PassesFilters(t)) => RowCounts(ret.val, call.df)

\* C10's case: with the default filters, a table that lacks one interior
\* row gets it back as a fully null row
C10_Witness ==
    /\ Done("reindex") /\ ret.ok
    /\ call.args.respect_valid_market_days /\ IsNone(call.args.between_time)
    /\ IsNone(call.args.start) /\ IsNone(call.args.end)
    /\ call.args.start_end_inclusive = "both"
    /\ Gapless(call.df, 1)
    /\ Len(ret.val) = Len(call.df) + 1
    /\ \E i \in 2..(Len(ret.val) - 1) : FullyNull(ret.val[i])

---------------------------------------------------------------------------
(* get_market_days.  Its code is not part of the sources at hand: it       *)
(* follows the specification (4.1) and the tests that call it.             *)

\* the longest range of days handed to get_market_days, and the last day a
\* range starts on
MaxSpan == 14
MaxDay == 290

\* the days first, first + 1, ..., last
RECURSIVE date_range(_, _)
date_range(first, last) ==
    IF first > last THEN <<>> ELSE <<first>> \o date_range(first + 1, last)

\* a timezone-aware (or naive, tz = None) timestamp at the midnight of day d
Midnight(d, tz) == [t |-> d * DAILY, tz |-> tz]

\* get_market_days without the holiday schedule
get_market_days_Weekdays(start_ts, end_ts) ==
    IF IsNone(start_ts.tz) \/ IsNone(end_ts.tz) \/ start_ts.tz # end_ts.tz
    THEN Raise("ValueError")
    ELSE LET days == SelectSeq(date_range(Date(start_ts.t), Date(end_ts.t)),
                               LAMBDA d : d % 7 \notin {5, 6})
         IN  Ok([i \in 1..Len(days) |-> Midnight(days[i], start_ts.tz)])

\* get_market_days(start_ts, end_ts): both boundaries carry a timezone, the
\* same one; the valid trading days of [start_ts, end_ts] in that timezone
get_market_days(start_ts, end_ts) ==
    IF IsNone(start_ts.tz) THEN Raise("ValueError")
    ELSE IF IsNone(end_ts.tz) THEN Raise("ValueError")
    ELSE IF start_ts.tz # end_ts.tz THEN Raise("ValueError")
    ELSE LET days == SelectSeq(date_range(Date(start_ts.t), Date(end_ts.t)),
                               IsMarketDay)
         IN  Ok([i \in 1..Len(days) |-> Midnight(days[i], start_ts.tz)])

\* the timezones of the boundaries: none, or one of two
Timezones == {None, Some("UTC"), Some("US/Eastern")}

\* a range of dates, as the tests build them: pd.Timestamp(date).tz_localize(tz)
InitCalendar ==
    /\ pc = "ready" /\ ret = None
    /\ \E first \in 0..MaxDay, span \in 0..MaxSpan :
       \E tz1 \in Timezones, tz2 \in Timezones :
          call = [op |-> "get_market_days",
                  start_ts |-> Midnight(first, tz1),
                  end_ts |-> Midnight(first + span, tz2)]

GetMarketDays ==
    /\ pc = "ready" /\ call.op = "get_market_days"
    /\ Return(get_market_days(call.start_ts, call.end_ts))

\* the same call once more; ret keeps the first outcome next to the second
GetMarketDaysAgain ==
    /\ pc = "done" /\ call.op = "get_market_days"
    /\ pc' = "again"
    /\ ret' = [first |-> ret, second |-> get_market_days(call.start_ts, call.end_ts)]
    /\ UNCHANGED call

NextCalendar ==
    \/ GetMarketDays
    \/ GetMarketDaysAgain

SpecCalendar == InitCalendar /\ [][NextCalendar]_vars

---------------------------------------------------------------------------
(* Claims about get_market_days, checked under SpecCalendar.               *)

\* both boundaries of the call carry a timezone, the same one
SameTimezone == ~IsNone(call.start_ts.tz) /\ call.start_ts.tz = call.end_ts.tz

\* the midnights d with start_ts <= d <= end_ts that are neither Saturday nor
\* Sunday nor a market holiday
ExpectedMarketDays ==
    { d \in 0..(MaxDay + MaxSpan + 1) :
        /\ call.start_ts.t <= d * DAILY /\ d * DAILY <= call.end_ts.t
        /\ d % 7 # 5 /\ d % 7 # 6
        /\ d \notin Holidays }

\* days is ExpectedMarketDays in increasing order, in the callers' timezone
IsExpectedMarketDays(days) ==
    /\ {days[i].t : i \in 1..Len(days)} = {d * DAILY : d \in ExpectedMarketDays}
    /\ \A i \in 1..(Len(days) - 1) : days[i].t < days[i + 1].t
    /\ \A i \in 1..Len(days) : days[i].tz = call.start_ts.tz

---------------------------------------------------------------------------
(* get_historical_ohlcv_df_from_db (database/utils/get_ohlcv.py).          *)

\* SELECT * FROM table WHERE timestamp >= start_ts AND timestamp < end_ts
\* ORDER BY timestamp (the rows of one symbol)
read_sql(table, start_ts, end_ts) ==
    SelectSeq(table, LAMBDA row : row["ts"] >= start_ts /\ row["ts"] < end_ts)

\* get_historical_ohlcv_df_from_db(spec, engine); table holds the rows the
\* engine has for spec.ticker at spec.timeframe
get_historical_ohlcv_df_from_db(spec, table) ==
    IF spec.timeframe \notin {MIN_1, MIN_5} THEN Raise("ValueError")
    ELSE
    LET df == read_sql(table, spec.start_ts, spec.end_ts)
        cleaned == clean_ohlcv(df,
                       [timeframe |-> spec.timeframe,
                        start |-> Some(spec.start_ts), end |-> Some(spec.end_ts),
                        between_time |-> spec.between_time,
                        between_time_inclusive |-> spec.between_time_inclusive,
                        respect_valid_market_days |-> spec.respect_valid_market_days,
                        bfill_data_start_threshold |-> None])
    IN  IF df = <<>> THEN Ok(df)
        ELSE IF spec.cleaned
             THEN [ok |-> cleaned.ok, err |-> cleaned.err, val |-> cleaned.val]
        ELSE Ok(df)

\* the requests: a supported timeframe or an unsupported one, a range that
\* starts on the first or second stored timestamp and ends on the grid or
\* half an interval before, with or without an intraday window around it
DbSpecs(tf) ==
    { [timeframe |-> tf, start_ts |-> T0(tf) + i * tf, end_ts |-> T0(tf) + MaxSteps * tf - back,
       cleaned |-> cl, between_time |-> bt, between_time_inclusive |-> "both",
       respect_valid_market_days |-> rvmd] :
      i \in {0, 1}, back \in {0, tf \div 2}, cl \in BOOLEAN,
      bt \in {None, <<45 * HALF_HOUR, 47 * HALF_HOUR>>}, rvmd \in BOOLEAN }

InitDb ==
    /\ pc = "ready" /\ ret = None
    /\ \E tf \in {MIN_1, MIN_5, HALF_HOUR} :
       \E table \in ObservedTables(tf), spec \in DbSpecs(tf) :
          call = [op |-> "get_historical_ohlcv_df_from_db", spec |-> spec, table |-> table]

GetHistoricalOHLCV ==
    /\ pc = "ready" /\ call.op = "get_historical_ohlcv_df_from_db"
    /\ Return(get_historical_ohlcv_df_from_db(call.spec, call.table))

NextDb == GetHistoricalOHLCV

SpecDb == InitDb /\ [][NextDb]_vars

---------------------------------------------------------------------------
(* Claims about get_historical_ohlcv_df_from_db, checked under SpecDb.     *)

\* C12: every row of the table get_historical_ohlcv_df_from_db returns has
\* a timestamp t with start_ts <= t < end_ts, cleaned or not: cleaning with
\* the same bounds introduces no row at end_ts.
C12_RowsWithinHalfOpenRange ==
    (Done("get_historical_ohlcv_df_from_db") /\ ret.ok) =>
        \A i \in 1..Len(ret.val) :
            /\ call.spec.start_ts <= ret.val[i]["ts"]
            /\ ret.val[i]["ts"] < call.spec.end_ts

---------------------------------------------------------------------------
(* Claims about the inference of OHLCVAgg.create, checked under SpecBar.   *)

\* the volume / transactions / avg_size consistency check of a bar
ConsistentActivity(b) ==
    IF b.volume = 0 THEN b.transactions = 0 /\ FracIsZero(b.avg_size)
    ELSE isclose_ratio(b.transactions, b.volume, b.avg_size)

\* exactly one of transactions / avg_size is supplied to create
OneSupplied(a) == IsNone(a.transactions) # IsNone(a.avg_size)

\* C13: create with exactly one of transactions / avg_size supplied infers
\* the other so that the returned bar passes the consistency check, for
\* every volume >= 0 (transactions == 0 alone with volume == 0 yields
\* avg_size == 0); with neither supplied it fails with a ValueError; it
\* never fails with any error other than a ValueError.
C13_CreateInfersOrRejects ==
    Done("create") =>
        LET a == call.args
            end_ts == IF IsNone(a.end_ts) THEN a.start_ts + a.timeframe ELSE Get(a.end_ts)
        IN  /\ (OneSupplied(a) /\ ret.ok) => ConsistentActivity(ret.val)
            /\ (a.volume = 0 /\ a.transactions = Some(0) /\ IsNone(a.avg_size)
                    /\ end_ts - a.start_ts = a.timeframe) =>
                  (ret.ok /\ FracIsZero(ret.val.avg_size))
            /\ (IsNone(a.transactions) /\ IsNone(a.avg_size)) =>
                  (~ret.ok /\ ret.err = "ValueError")
            /\ ~ret.ok => ret.err = "ValueError"

---------------------------------------------------------------------------
(* Claims about the failures of fill_ohlcv, checked under SpecFill.        *)

\* the constant column of df holds exactly one distinct non-null value
ValidConstants(df) ==
    Cardinality({df[i]["ticker"] : i \in 1..Len(df)} \ {None}) = 1

\* df lacks a usable anchor: some leading row has a null close with no
\* earlier non-null close, and no row has a non-null open
LacksAnchor(df) ==
    /\ \E i \in 1..Len(df) : LeadingNullClose(df, i)
    /\ \A i \in 1..Len(df) : IsNone(df[i]["open"])

\* C14: on a table with valid constant columns fill fails if and only if
\* the series lacks a usable anchor; otherwise (also when close is non-null
\* in every row and open null in every row) it returns a table with no null
\* in open, high, low, close, volume, vwap or transactions and with exactly
\* the input's rows and index.
C14_FillFailsIffNoAnchor ==
    (pc = "done" /\ call.op = "fill" /\ ValidConstants(call.df)) =>
        /\ ~ret.ok <=> LacksAnchor(call.df)
        /\ ret.ok =>
              /\ Len(ret.val) = Len(call.df)
              /\ \A i \in 1..Len(ret.val) :
                    /\ ret.val[i]["ts"] = call.df[i]["ts"]
                    /\ \A c \in OHLCV_CNAMES : ~IsNone(ret.val[i][c])

============================================================================
